---- MODULE Spec2Model ----
(***************************************************************************)
(* Market stream hub (backend/app/services/market_ws_service.py) and its   *)
(* websocket entry point (backend/app/main.py).                            *)
(*                                                                         *)
(* The program is an asyncio program: a coroutine runs without             *)
(* interruption from one await to the next.  `cur` names the coroutine     *)
(* that is executing between two awaits ("none" when every coroutine is    *)
(* suspended); only that coroutine can take the next step.                 *)
(* Prices and quantities are modelled as integers.                         *)
(***************************************************************************)
EXTENDS Integers, Sequences, FiniteSets, TLC

VARIABLES
  clients,          \* MarketStreamHub.clients
  stream_task,      \* MarketStreamHub._stream_task: 0 is None, else a task id
  stop_event,       \* MarketStreamHub._stop_event.is_set()
  lock,             \* MarketStreamHub._lock: "free" or its holder
  recent_payloads,  \* MarketStreamHub._recent_payloads
  wsPc,             \* position of each market_ws handler ("absent": no such request)
  unfinished,       \* ids of the asyncio tasks created and not yet done()
  started,          \* number of create_task(_run_stream()) calls so far
  must_cancel,      \* Task.cancel() requested and not yet delivered
  cur,              \* the coroutine executing between two awaits
  pc,               \* position of the ingestion task in _run_stream / broadcast
  reconnect_delay,  \* _run_stream local
  candle,           \* _run_stream local (NoCandle is None)
  last_emit_at,     \* _run_stream local
  trade,            \* _run_stream locals price, quantity, event_time_ms, bucket_start
  missing,          \* _run_stream local: gap candles not yet broadcast
  payload,          \* broadcast argument
  ret,              \* call site broadcast returns to: "gap", "new" or "throttle"
  now,              \* _run_stream local `now`
  snapshot,         \* broadcast: clients of list(self.clients) not yet sent to
  disconnected,     \* broadcast local
  upstream,         \* the upstream websocket: "closed" or "open"
  clock,            \* asyncio loop time, in seconds
  feed,             \* the messages the upstream may deliver
  msgBudget,        \* upstream messages still to come
  failBudget,       \* upstream failures / closures still to come
  received,         \* history: payloads each client socket has received since
                    \* the ingestion task read its current upstream message
  emitted,          \* history: payloads that passed the validator, in order
  processed,        \* history: trades parsed by the current ingestion task
  slept,            \* history: sleeps of the current task since its last successful connection
  atRead,           \* history: the client set and the length of emitted when the
                    \* ingestion task read its current upstream message
  lastCast,         \* history: the last call of broadcast (time, task, trade, bucket, verdict)
  _hubs,            \* the registry _hubs: key (SYMBOL, timeframe) -> hub
  hub_count,        \* number of MarketStreamHub objects constructed so far
  request,          \* the market_ws requests: parameters, position, hub, close code
  hub_clients,      \* registry view of each hub: its client set
  hub_task,         \* registry view of each hub: its ingestion task
  call              \* one call of _bucket_start: hub timeframe, argument, result

vars == << clients, stream_task, stop_event, lock, recent_payloads, wsPc,
           unfinished, started, must_cancel, cur, pc, reconnect_delay, candle,
           last_emit_at, trade, missing, payload, ret, now, snapshot,
           disconnected, upstream, clock, feed, msgBudget, failBudget, received,
           emitted, processed, slept, atRead, lastCast, _hubs, hub_count,
           request, hub_clients, hub_task, call >>

hubVars    == << clients, stream_task, stop_event, lock, recent_payloads >>
taskLocals == << reconnect_delay, candle, last_emit_at, trade, missing,
                 payload, ret, now, snapshot, disconnected >>
histVars   == << received, emitted, processed, slept, atRead, lastCast >>
appVars    == << _hubs, hub_count, request, hub_clients, hub_task >>
envVars    == << upstream, clock, feed, msgBudget, failBudget, appVars, call >>

----------------------------------------------------------------------------
(* Bounds *)
MaxMsgs   == 3    \* upstream messages in the aggregation specification
MaxClock  == 1    \* seconds of loop time that pass
HubMsgs   == 2    \* upstream messages in the lifecycle specification
HubFails  == 1    \* upstream failures in the lifecycle specification
MaxFails  == 7    \* upstream failures in the backoff specification
StreamFails == 1  \* upstream failures in the aggregation specification
BackoffMsgs == 1  \* upstream messages in the backoff specification

MaxEventSeconds == 3700  \* largest event time, in seconds, given to _bucket_start

Sockets == {"ws1", "ws2"}

\* the requests of the entry-point specification and their query parameters
Subscribers == {"s1", "s2", "s3"}
Symbols     == {"btcusdt", "BTCUSDT", "ETHUSDT"}
Timeframes  == {"5m", "5M", "1h", "1D"}
\* arguments of _bucket_start: every second up to the bound, at its first
\* and last milliseconds
EventTimes  == { sec * 1000 + ms : sec \in -1 .. MaxEventSeconds,
                                  ms \in {0, 1, 999} }

(* Program constants *)
TIMEFRAME_SECONDS == [tf \in {"1m", "5m", "15m", "30m", "1h"} |->
                        CASE tf = "1m"  -> 60
                          [] tf = "5m"  -> 300
                          [] tf = "15m" -> 900
                          [] tf = "30m" -> 1800
                          [] tf = "1h"  -> 3600]
Timeframe             == "5m"
RecentMaxLen          == 5
InitialReconnectDelay == 1
MaxReconnectDelay     == 30
emit_interval_seconds == 1
UnsupportedTimeframe  == 1008   \* close code of market_ws

----------------------------------------------------------------------------
(* Upstream messages.  A message either fails to parse or yields a trade   *)
(* (price p, quantity q, event time E in milliseconds).  `ok` is false when *)
(* lines 106-109 raise one of KeyError, TypeError, ValueError and           *)
(* JSONDecodeError; `inf` is true when E is the float infinity (the JSON    *)
(* number 1e999), for which int() raises OverflowError.                     *)
BadMessage == [ok |-> FALSE, p |-> 0, q |-> 0, E |-> 0, inf |-> FALSE]
Trade(E, p, q) == [ok |-> TRUE, p |-> p, q |-> q, E |-> E, inf |-> FALSE]
InfiniteTime == [ok |-> TRUE, p |-> 100, q |-> 1, E |-> 0, inf |-> TRUE]

\* an event time on a bucket boundary of the hub's timeframe
T0 == 2 * TIMEFRAME_SECONDS[Timeframe] * 1000
Messages == { BadMessage,
              Trade(T0, 100, 1),
              Trade(T0 + 10000, 105, 2),
              Trade(T0 + 700000, 95, 1),
              Trade(T0 - 300000, 100, 1),
              Trade(T0 + 20000, 0, -1) }
\* a feed that skips buckets
HubFeed == { BadMessage,
             Trade(T0 - 300000, 100, 1),
             Trade(T0 + 20000, 0, -1),
             Trade(T0 + 700000, 95, 1) }
\* a feed with a message of each kind
BackoffFeed == { BadMessage, Trade(T0, 100, 1), InfiniteTime }

----------------------------------------------------------------------------
Min(a, b) == IF b < a THEN b ELSE a
Max(a, b) == IF b > a THEN b ELSE a

NoCandle == [bucket_start |-> -1, open |-> 0, high |-> 0, low |-> 0,
             close |-> 0, volume |-> 0]
CandleState(b, o, h, l, c, v) ==
  [bucket_start |-> b, open |-> o, high |-> h, low |-> l, close |-> c,
   volume |-> v]
NoTrade   == [price |-> 0, quantity |-> 0, event_time_ms |-> 0, bucket_start |-> 0]
\* no call of broadcast yet
NoCast    == [at |-> 0, task |-> 0, trade |-> 0, bucket_start |-> -1,
              valid |-> FALSE]
NoPayload == [type |-> "none", event_time_ms |-> 0, candle |-> NoCandle]

\* _bucket_start without the conversion of milliseconds to seconds
BucketStartOfMillis(timeframe, event_time_ms) ==
  LET bucket_seconds == TIMEFRAME_SECONDS[timeframe]
  IN  (event_time_ms \div bucket_seconds) * bucket_seconds

\* _bucket_start of a hub of the given timeframe (// and \div both round
\* towards minus infinity)
BucketStartOf(timeframe, event_time_ms) ==
  LET seconds        == event_time_ms \div 1000
      bucket_seconds == TIMEFRAME_SECONDS[timeframe]
  IN  (seconds \div bucket_seconds) * bucket_seconds

\* _bucket_start of the hub of the lifecycle specifications
BucketStart(event_time_ms) == BucketStartOf(Timeframe, event_time_ms)

\* no call of _bucket_start in progress
NoCall == [timeframe |-> Timeframe, event_time_ms |-> 0, returned |-> FALSE,
           bucket_start |-> 0]

\* a market_ws request that has not arrived yet
NoRequest == [symbol |-> "", timeframe |-> "", at |-> "new", hub |-> 0,
              close_code |-> 0]

\* str.upper and str.lower on the query parameters the requests use
Upper(str) ==
  CASE str \in {"btcusdt", "BtcUsdt", "BTCUSDT"} -> "BTCUSDT"
    [] str \in {"ethusdt", "ETHUSDT"}            -> "ETHUSDT"
    [] OTHER                                     -> str
Lower(str) ==
  CASE str \in {"5M", "5m"} -> "5m"
    [] str \in {"1H", "1h"} -> "1h"
    [] str \in {"1D", "1d"} -> "1d"
    [] OTHER                -> str

\* _build_candle_update (the candle timestamp is the rendering of bucket_start;
\* it is kept as the number of seconds it renders)
BuildCandleUpdate(cs, event_time_ms) ==
  [type |-> "candle_update", event_time_ms |-> event_time_ms, candle |-> cs]

\* a gap filler that also fills the bucket of the next trade
RECURSIVE MissingThrough(_, _, _)
MissingThrough(current, next_bucket_start, carry) ==
  IF current <= next_bucket_start
    THEN << [bucket_start |-> current, open |-> carry, high |-> carry,
             low |-> carry, close |-> carry, volume |-> 0] >>
           \o MissingThrough(current + 300, next_bucket_start, carry)
    ELSE << >>
BuildMissingCandlesThrough(previous_candle, next_bucket_start) ==
  MissingThrough(previous_candle.bucket_start + 300, next_bucket_start,
                 previous_candle.close)

\* _build_missing_candles
RECURSIVE MissingFrom(_, _, _)
MissingFrom(current, next_bucket_start, carry) ==
  IF current < next_bucket_start
    THEN << CandleState(current, carry, carry, carry, carry, 0) >>
           \o MissingFrom(current + TIMEFRAME_SECONDS[Timeframe],
                          next_bucket_start, carry)
    ELSE << >>
BuildMissingCandles(previous_candle, next_bucket_start) ==
  MissingFrom(previous_candle.bucket_start + TIMEFRAME_SECONDS[Timeframe],
              next_bucket_start, previous_candle.close)

\* a validator that does not test the sign of prices and volume
IsValidCandlePayloadNoSign(pl) ==
  /\ pl.type = "candle_update"
  /\ ~ (\/ pl.candle.high < Max(pl.candle.open, pl.candle.close)
        \/ pl.candle.low > Min(pl.candle.open, pl.candle.close)
        \/ pl.candle.high < pl.candle.low)

\* _is_valid_candle_payload (every numeric field of a modelled payload is a
\* finite number, its timestamp and server_time non-empty strings)
IsValidCandlePayload(pl) ==
  LET o == pl.candle.open
      h == pl.candle.high
      l == pl.candle.low
      c == pl.candle.close
      v == pl.candle.volume
  IN  /\ pl.type = "candle_update"
      /\ ~ (o <= 0 \/ h <= 0 \/ l <= 0 \/ c <= 0)
      /\ ~ (v < 0)
      /\ ~ (h < Max(o, c) \/ l > Min(o, c) \/ h < l)

\* deque(maxlen=5).append
RingAppend(q, x) ==
  IF Len(q) < RecentMaxLen THEN Append(q, x) ELSE Append(Tail(q), x)

\* asyncio.Task.done() of the hub's task handle
TaskDone == stream_task \notin unfinished

----------------------------------------------------------------------------
(* Candle aggregator: the two branches of _run_stream's bucket test *)
OpenCandle(bucket_start, price, quantity) ==
  CandleState(bucket_start, price, price, price, price, quantity)

UpdateCandle(cs, price, quantity) ==
  [cs EXCEPT !.high   = Max(cs.high, price),
             !.low    = Min(cs.low, price),
             !.close  = price,
             !.volume = cs.volume + quantity]

\* the bucket test of _run_stream: a new candle is opened
IsRollover(cs, bucket_start) ==
  cs = NoCandle \/ bucket_start # cs.bucket_start

RECURSIVE Reverse(_)
Reverse(q) == IF q = << >> THEN << >> ELSE Append(Reverse(Tail(q)), Head(q))

\* gap candles handed over newest first
GapCandlesNewestFirst(cs, bucket_start) ==
  IF cs # NoCandle /\ bucket_start > cs.bucket_start
    THEN Reverse(BuildMissingCandles(cs, bucket_start))
    ELSE << >>

\* the gap candles _run_stream asks for on a rollover
GapCandles(cs, bucket_start) ==
  IF cs # NoCandle /\ bucket_start > cs.bucket_start
    THEN BuildMissingCandles(cs, bucket_start)
    ELSE << >>

\* a backoff that doubles without the cap
NextDelayUncapped(d) == d * 2

\* reconnect_delay = min(reconnect_delay * 2, 30)
NextDelay(d) == Min(d * 2, MaxReconnectDelay)

----------------------------------------------------------------------------
(* Initial states *)
HubInit(socks, fd, msgs, fails) ==
  /\ clients = {}
  /\ stream_task = 0
  /\ stop_event = FALSE
  /\ lock = "free"
  /\ recent_payloads = << >>
  /\ wsPc = [c \in Sockets |-> IF c \in socks THEN "init" ELSE "absent"]
  /\ unfinished = {}
  /\ started = 0
  /\ must_cancel = FALSE
  /\ cur = "none"
  /\ pc = "none"
  /\ reconnect_delay = InitialReconnectDelay
  /\ candle = NoCandle
  /\ last_emit_at = 0
  /\ trade = NoTrade
  /\ missing = << >>
  /\ payload = NoPayload
  /\ ret = "none"
  /\ now = 0
  /\ snapshot = {}
  /\ disconnected = {}
  /\ upstream = "closed"
  /\ clock = 0
  /\ feed = fd
  /\ msgBudget = msgs
  /\ failBudget = fails
  /\ received = [c \in Sockets |-> << >>]
  /\ emitted = << >>
  /\ processed = << >>
  /\ slept = << >>
  /\ atRead = [clients |-> {}, mark |-> 0]
  /\ lastCast = NoCast

\* the module state before any request: _hubs = {}
AppInit ==
  /\ _hubs = << >>
  /\ hub_count = 0
  /\ request = [r \in Subscribers |-> NoRequest]
  /\ hub_clients = << >>
  /\ hub_task = << >>

InitWith(socks, fd, msgs, fails) ==
  /\ HubInit(socks, fd, msgs, fails)
  /\ AppInit
  /\ call = NoCall

\* two subscribers, a short feed
Init        == InitWith(Sockets, HubFeed, HubMsgs, HubFails)
\* one subscriber, a longer feed
InitStream  == InitWith({"ws1"}, Messages, MaxMsgs, StreamFails)
\* one subscriber, an upstream that keeps failing
InitBackoff == InitWith({"ws1"}, BackoffFeed, BackoffMsgs, MaxFails)

----------------------------------------------------------------------------
(* market_ws and MarketStreamHub.connect / disconnect *)

\* connect: await websocket.accept()
Accept(c) ==
  /\ cur = "none"
  /\ wsPc[c] = "init"
  /\ wsPc' = [wsPc EXCEPT ![c] = "accepted"]
  /\ UNCHANGED << hubVars, unfinished, started, must_cancel, cur, pc,
                  taskLocals, envVars, histVars >>

\* connect: async with self._lock
ConnectLock(c) ==
  /\ cur = "none"
  /\ wsPc[c] = "accepted"
  /\ lock = "free"
  /\ lock' = c
  /\ cur' = c
  /\ wsPc' = [wsPc EXCEPT ![c] = "locked"]
  /\ UNCHANGED << clients, stream_task, stop_event, recent_payloads,
                  unfinished, started, must_cancel, pc, taskLocals, envVars,
                  histVars >>

\* a connect that starts a task whenever it is called
NeedsTaskAlways == TRUE

\* the test that decides whether connect starts a task
NeedsTask == stream_task = 0 \/ TaskDone

\* connect: the body under the lock
ConnectBody(c) ==
  /\ cur = c
  /\ wsPc[c] = "locked"
  /\ clients' = clients \cup {c}
  /\ IF NeedsTask
       THEN /\ stop_event' = FALSE
            /\ started' = started + 1
            /\ stream_task' = started + 1
            /\ unfinished' = unfinished \cup {started + 1}
            /\ must_cancel' = FALSE
            /\ pc' = "start"
            /\ reconnect_delay' = InitialReconnectDelay
            /\ candle' = NoCandle
            /\ last_emit_at' = 0
            /\ trade' = NoTrade
            /\ missing' = << >>
            /\ payload' = NoPayload
            /\ ret' = "none"
            /\ now' = 0
            /\ snapshot' = {}
            /\ disconnected' = {}
            /\ processed' = << >>
            /\ slept' = << >>
       ELSE UNCHANGED << stop_event, started, stream_task, unfinished,
                         must_cancel, pc, taskLocals, processed, slept >>
  /\ lock' = "free"
  /\ cur' = "none"
  /\ wsPc' = [wsPc EXCEPT ![c] = "open"]
  /\ UNCHANGED << recent_payloads, envVars, received, emitted, atRead,
                  lastCast >>

\* market_ws: receive_text raises WebSocketDisconnect; disconnect takes the lock
DisconnectLock(c) ==
  /\ cur = "none"
  /\ wsPc[c] = "open"
  /\ lock = "free"
  /\ lock' = c
  /\ cur' = c
  /\ wsPc' = [wsPc EXCEPT ![c] = "dlocked"]
  /\ UNCHANGED << clients, stream_task, stop_event, recent_payloads,
                  unfinished, started, must_cancel, pc, taskLocals, envVars,
                  histVars >>

\* a disconnect that stops the task whoever remains
ShouldStopAnyway(cs) == stream_task # 0 /\ ~ TaskDone

\* the test that decides whether disconnect stops the task
ShouldStop(cs) == cs = {} /\ stream_task # 0 /\ ~ TaskDone

\* disconnect: the body under the lock
DisconnectBody(c) ==
  /\ cur = c
  /\ wsPc[c] = "dlocked"
  /\ clients' = clients \ {c}
  /\ IF ShouldStop(clients')
       THEN /\ stop_event' = TRUE
            /\ must_cancel' = TRUE
       ELSE UNCHANGED << stop_event, must_cancel >>
  /\ lock' = "free"
  /\ cur' = "none"
  /\ wsPc' = [wsPc EXCEPT ![c] = "closed"]
  /\ UNCHANGED << stream_task, recent_payloads, unfinished, started, pc,
                  taskLocals, envVars, histVars >>

----------------------------------------------------------------------------
(* The ingestion task: _run_stream and the broadcast calls it makes *)

Running    == stream_task # 0 /\ ~ TaskDone
\* a suspended task resumes normally only if no cancellation is pending
Resumes(p) == Running /\ cur = "none" /\ pc = p /\ ~ must_cancel
\* the task is executing between two awaits
Executes(p) == Running /\ cur = "task" /\ pc = p

\* the coroutine ends (return, or CancelledError leaving it): the task is done
Finish ==
  /\ unfinished' = unfinished \ {stream_task}
  /\ pc' = "done"
  /\ cur' = "none"
  /\ must_cancel' = FALSE
  /\ upstream' = "closed"
  /\ reconnect_delay' = InitialReconnectDelay
  /\ candle' = NoCandle
  /\ last_emit_at' = 0
  /\ trade' = NoTrade
  /\ missing' = << >>
  /\ payload' = NoPayload
  /\ ret' = "none"
  /\ now' = 0
  /\ snapshot' = {}
  /\ disconnected' = {}

\* a cancellation that is swallowed at the await it is delivered to
OnCancelledSwallowed(p) == p

\* where a cancellation delivered at an await leaves the task: every await of
\* _run_stream either sits in the try block (except CancelledError: break) or
\* in the except handler (the error leaves the coroutine)
OnCancelled(p) == "done"

\* the first step of a task that was created: locals, then the while test
Start ==
  /\ Resumes("start")
  /\ pc' = "loop"
  /\ cur' = "task"
  /\ UNCHANGED << hubVars, wsPc, unfinished, started, must_cancel, taskLocals,
                  envVars, histVars >>

\* while not self._stop_event.is_set()
Loop ==
  /\ Executes("loop")
  /\ IF stop_event
       THEN /\ Finish
            /\ UNCHANGED << clock, feed, appVars, call, msgBudget, failBudget >>
       ELSE /\ pc' = "connecting"
            /\ cur' = "none"
            /\ UNCHANGED << unfinished, must_cancel, taskLocals, envVars >>
  /\ UNCHANGED << hubVars, wsPc, started, histVars >>

\* websockets.connect succeeds
UpstreamOpen ==
  /\ Resumes("connecting")
  /\ upstream' = "open"
  /\ reconnect_delay' = InitialReconnectDelay
  /\ slept' = << >>
  /\ pc' = "recv"
  /\ UNCHANGED << hubVars, wsPc, unfinished, started, must_cancel, cur,
                  candle, last_emit_at, trade, missing, payload, ret, now,
                  snapshot, disconnected, clock, feed, appVars, call, msgBudget, failBudget,
                  received, emitted, processed, atRead, lastCast >>

\* except Exception with a retry limit: the third failure in a row ends the
\* coroutine
ToSleepGivesUp ==
  /\ failBudget > 0
  /\ failBudget' = failBudget - 1
  /\ IF Len(slept) >= 2
       THEN /\ Finish
            /\ UNCHANGED slept
       ELSE /\ upstream' = "closed"
            /\ slept' = Append(slept, reconnect_delay)
            /\ pc' = "sleep"
            /\ UNCHANGED << unfinished, must_cancel, cur, taskLocals >>
  /\ UNCHANGED << hubVars, wsPc, started, clock, feed, appVars, call,
                  msgBudget, received, emitted, processed, atRead, lastCast >>

\* except Exception: await asyncio.sleep(reconnect_delay)
ToSleep ==
  /\ failBudget > 0
  /\ failBudget' = failBudget - 1
  /\ upstream' = "closed"
  /\ slept' = Append(slept, reconnect_delay)
  /\ pc' = "sleep"
  /\ UNCHANGED << hubVars, wsPc, unfinished, started, must_cancel, cur,
                  taskLocals, clock, feed, appVars, call, msgBudget, received, emitted,
                  processed, atRead, lastCast >>

\* websockets.connect raises
UpstreamRefused == Resumes("connecting") /\ ToSleep

\* the upstream connection is lost while waiting for a message
UpstreamLost == Resumes("recv") /\ ToSleep

\* the upstream closes normally: async for ends, back to the while test
UpstreamEnds ==
  /\ Resumes("recv")
  /\ failBudget > 0
  /\ failBudget' = failBudget - 1
  /\ upstream' = "closed"
  /\ pc' = "loop"
  /\ cur' = "task"
  /\ UNCHANGED << hubVars, wsPc, unfinished, started, must_cancel, taskLocals,
                  clock, feed, appVars, call, msgBudget, histVars >>

\* asyncio.sleep returns: reconnect_delay = min(reconnect_delay * 2, 30)
SleepDone ==
  /\ Resumes("sleep")
  /\ reconnect_delay' = NextDelay(reconnect_delay)
  /\ pc' = "loop"
  /\ cur' = "task"
  /\ UNCHANGED << hubVars, wsPc, unfinished, started, must_cancel, candle,
                  last_emit_at, trade, missing, payload, ret, now, snapshot,
                  disconnected, envVars, histVars >>

\* Task.cancel() is delivered at the await the task is suspended in
Cancelled ==
  /\ Running
  /\ cur = "none"
  /\ must_cancel
  /\ IF OnCancelled(pc) = "done"
       THEN Finish
       ELSE /\ pc' = OnCancelled(pc)
            /\ must_cancel' = FALSE
            /\ UNCHANGED << unfinished, cur, upstream, taskLocals >>
  /\ UNCHANGED << hubVars, wsPc, started, clock, feed, appVars, call, msgBudget, failBudget,
                  histVars >>

\* async for message in ws: one message arrives
Recv(m) ==
  /\ Resumes("recv")
  /\ m \in feed
  /\ msgBudget > 0
  /\ msgBudget' = msgBudget - 1
  /\ received' = [c \in Sockets |-> << >>]
  /\ atRead' = [clients |-> clients, mark |-> Len(emitted)]
  /\ IF stop_event
       THEN \* break: leaves async with, back to the while test
            /\ upstream' = "closed"
            /\ pc' = "loop"
            /\ cur' = "task"
            /\ UNCHANGED << taskLocals, processed, slept >>
       ELSE IF ~ m.ok
       THEN \* except (KeyError, TypeError, ValueError, ...): continue
            UNCHANGED << upstream, pc, cur, taskLocals, processed, slept >>
       ELSE IF m.inf
       THEN \* OverflowError is none of these: except Exception, sleep
            /\ upstream' = "closed"
            /\ slept' = Append(slept, reconnect_delay)
            /\ pc' = "sleep"
            /\ UNCHANGED << cur, taskLocals, processed >>
       ELSE LET bucket_start == BucketStart(m.E) IN
            /\ trade' = [price |-> m.p, quantity |-> m.q,
                         event_time_ms |-> m.E, bucket_start |-> bucket_start]
            /\ processed' = Append(processed, trade')
            /\ cur' = "task"
            /\ IF IsRollover(candle, bucket_start)
                 THEN /\ missing' = GapCandles(candle, bucket_start)
                      /\ pc' = "gap"
                      /\ UNCHANGED candle
                 ELSE /\ candle' = UpdateCandle(candle, m.p, m.q)
                      /\ pc' = "throttle"
                      /\ UNCHANGED missing
            /\ UNCHANGED << upstream, reconnect_delay, last_emit_at, payload,
                            ret, now, snapshot, disconnected, slept >>
  /\ UNCHANGED << hubVars, wsPc, unfinished, started, must_cancel, clock,
                  feed, appVars, call, failBudget, emitted, lastCast >>

\* for gap_candle in missing: broadcast(...); then the new candle is opened
\* and broadcast
Gap ==
  /\ Executes("gap")
  /\ IF missing # << >>
       THEN /\ payload' = BuildCandleUpdate(Head(missing),
                                            Head(missing).bucket_start * 1000)
            /\ missing' = Tail(missing)
            /\ ret' = "gap"
            /\ UNCHANGED candle
       ELSE /\ candle' = OpenCandle(trade.bucket_start, trade.price,
                                    trade.quantity)
            /\ payload' = BuildCandleUpdate(candle', trade.event_time_ms)
            /\ ret' = "new"
            /\ UNCHANGED missing
  /\ pc' = "bcast"
  /\ UNCHANGED << hubVars, wsPc, unfinished, started, must_cancel, cur,
                  reconnect_delay, last_emit_at, trade, now, snapshot,
                  disconnected, envVars, histVars >>

\* the update candle is broadcast whatever the time of the last broadcast
ThrottleAlways(t, last) == TRUE

\* now = loop.time(); if now - last_emit_at >= emit_interval_seconds
ThrottleDue(t, last) == t - last >= emit_interval_seconds

Throttle ==
  /\ Executes("throttle")
  /\ now' = clock
  /\ IF ThrottleDue(clock, last_emit_at)
       THEN /\ payload' = BuildCandleUpdate(candle, trade.event_time_ms)
            /\ ret' = "throttle"
            /\ pc' = "bcast"
            /\ UNCHANGED cur
       ELSE /\ pc' = "recv"
            /\ cur' = "none"
            /\ UNCHANGED << payload, ret >>
  /\ UNCHANGED << hubVars, wsPc, unfinished, started, must_cancel,
                  reconnect_delay, candle, last_emit_at, trade, missing,
                  snapshot, disconnected, envVars, histVars >>

\* broadcast returns to its call site in _run_stream
Return ==
  CASE ret = "gap"      -> /\ pc' = "gap"
                           /\ cur' = "task"
                           /\ UNCHANGED last_emit_at
    [] ret = "new"      -> /\ last_emit_at' = clock
                           /\ pc' = "throttle"
                           /\ cur' = "task"
    [] ret = "throttle" -> /\ last_emit_at' = now
                           /\ pc' = "recv"
                           /\ cur' = "none"

\* broadcast: validation, ring buffer, snapshot of the client set
Broadcast ==
  /\ Executes("bcast")
  /\ lastCast' = [at |-> clock, task |-> stream_task, trade |-> Len(processed),
                  bucket_start |-> payload.candle.bucket_start,
                  valid |-> IsValidCandlePayload(payload)]
  /\ IF ~ IsValidCandlePayload(payload)
       THEN /\ Return
            /\ UNCHANGED << recent_payloads, emitted, snapshot, disconnected >>
       ELSE /\ recent_payloads' = RingAppend(recent_payloads, payload)
            /\ emitted' = Append(emitted, payload)
            /\ disconnected' = {}
            /\ IF clients = {}
                 THEN /\ Return
                      /\ UNCHANGED snapshot
                 ELSE /\ snapshot' = clients
                      /\ pc' = "send"
                      /\ cur' = "none"
                      /\ UNCHANGED last_emit_at
  /\ UNCHANGED << clients, stream_task, stop_event, lock, wsPc, unfinished,
                  started, must_cancel, reconnect_delay, candle, trade,
                  missing, payload, ret, now, envVars, received, processed,
                  slept, atRead >>

\* the end of the delivery loop of broadcast
AfterSends(failed) ==
  IF failed = {}
    THEN Return
    ELSE /\ pc' = "prune"
         /\ cur' = "task"
         /\ UNCHANGED last_emit_at

\* await client.send_json(payload) returns
SendOk(c) ==
  /\ Resumes("send")
  /\ c \in snapshot
  /\ wsPc[c] = "open"
  /\ received' = [received EXCEPT ![c] = Append(@, payload)]
  /\ snapshot' = snapshot \ {c}
  /\ IF snapshot' = {}
       THEN AfterSends(disconnected)
       ELSE UNCHANGED << pc, cur, last_emit_at >>
  /\ UNCHANGED << hubVars, wsPc, unfinished, started, must_cancel,
                  reconnect_delay, candle, trade, missing, payload, ret, now,
                  disconnected, envVars, emitted, processed, slept, atRead,
                  lastCast >>

\* await client.send_json(payload) raises, and the failure ends the pass
SendFailEndsPass(c) ==
  /\ Resumes("send")
  /\ c \in snapshot
  /\ disconnected' = disconnected \cup {c}
  /\ snapshot' = {}
  /\ AfterSends(disconnected')
  /\ UNCHANGED << hubVars, wsPc, unfinished, started, must_cancel,
                  reconnect_delay, candle, trade, missing, payload, ret, now,
                  envVars, histVars >>

\* await client.send_json(payload) raises
SendFail(c) ==
  /\ Resumes("send")
  /\ c \in snapshot
  /\ disconnected' = disconnected \cup {c}
  /\ snapshot' = snapshot \ {c}
  /\ IF snapshot' = {}
       THEN AfterSends(disconnected')
       ELSE UNCHANGED << pc, cur, last_emit_at >>
  /\ UNCHANGED << hubVars, wsPc, unfinished, started, must_cancel,
                  reconnect_delay, candle, trade, missing, payload, ret, now,
                  envVars, histVars >>

\* broadcast goes on to the pruning without taking the lock
PruneLockSkipped ==
  /\ Executes("prune")
  /\ pc' = "pruning"
  /\ UNCHANGED << hubVars, wsPc, unfinished, started, must_cancel, cur,
                  taskLocals, envVars, histVars >>

\* broadcast: async with self._lock (some delivery failed)
PruneLock ==
  /\ Executes("prune")
  /\ lock = "free"
  /\ lock' = "task"
  /\ pc' = "pruning"
  /\ UNCHANGED << clients, stream_task, stop_event, recent_payloads, wsPc,
                  unfinished, started, must_cancel, cur, taskLocals, envVars,
                  histVars >>

\* broadcast: self.clients.discard(client) for each failed client
PruneBody ==
  /\ Executes("pruning")
  /\ clients' = clients \ disconnected
  /\ lock' = "free"
  /\ Return
  /\ UNCHANGED << stream_task, stop_event, recent_payloads, wsPc, unfinished,
                  started, must_cancel, reconnect_delay, candle, trade,
                  missing, payload, ret, now, snapshot, disconnected, envVars,
                  histVars >>

\* loop time passes while every coroutine is suspended
Tick ==
  /\ cur = "none"
  /\ clock < MaxClock
  /\ clock' = clock + 1
  /\ UNCHANGED << hubVars, wsPc, unfinished, started, must_cancel, cur, pc,
                  taskLocals, upstream, feed, appVars, call, msgBudget, failBudget, histVars >>

----------------------------------------------------------------------------
Next ==
  \/ \E c \in Sockets : Accept(c)
  \/ \E c \in Sockets : ConnectLock(c)
  \/ \E c \in Sockets : ConnectBody(c)
  \/ \E c \in Sockets : DisconnectLock(c)
  \/ \E c \in Sockets : DisconnectBody(c)
  \/ Start
  \/ Loop
  \/ UpstreamOpen
  \/ UpstreamRefused
  \/ UpstreamLost
  \/ UpstreamEnds
  \/ SleepDone
  \/ Cancelled
  \/ \E m \in Messages \cup BackoffFeed : Recv(m)
  \/ Gap
  \/ Throttle
  \/ Broadcast
  \/ \E c \in Sockets : SendOk(c)
  \/ \E c \in Sockets : SendFail(c)
  \/ PruneLock
  \/ PruneBody
  \/ Tick

Spec        == Init /\ [][Next]_vars
SpecStream  == InitStream /\ [][Next]_vars
SpecBackoff == InitBackoff /\ [][Next]_vars

\* The event loop runs every coroutine that is ready: a pending cancellation
\* is delivered, and a coroutine that is between two awaits goes on to its
\* next await.  Nothing is assumed of the upstream, the clients or the timers.
Scheduled ==
  \/ Start \/ Loop \/ Gap \/ Throttle \/ Broadcast \/ PruneLock \/ PruneBody
  \/ \E c \in Sockets : ConnectBody(c)
  \/ \E c \in Sockets : DisconnectBody(c)
Fairness == WF_vars(Cancelled) /\ WF_vars(Scheduled)
FairSpec == InitBackoff /\ [][Next]_vars /\ Fairness

----------------------------------------------------------------------------
(* The entry point market_ws and the registry of hubs.  Here a hub is seen  *)
(* from the registry: its identity (the number of its construction), its    *)
(* client set and whether its ingestion task exists.                        *)

\* the variables of the hub of the lifecycle specifications
oneHubVars == << hubVars, wsPc, unfinished, started, must_cancel, cur, pc,
                 taskLocals, upstream, clock, feed, msgBudget, failBudget,
                 histVars >>

\* market_ws accepts every timeframe
SupportedAny(timeframe) == TRUE

\* market_ws: timeframe in TIMEFRAME_SECONDS
Supported(timeframe) == timeframe \in DOMAIN TIMEFRAME_SECONDS

\* get_market_hub with the symbol as given
HubKeyAsGiven(symbol, timeframe) == << symbol, timeframe >>

\* get_market_hub: key = (symbol.upper(), timeframe)
HubKey(symbol, timeframe) == << Upper(symbol), timeframe >>

\* market_ws up to its first await: the timeframe test, then either the
\* close or get_market_hub and the call of hub.connect
MarketWs(r, symbol, timeframe) ==
  /\ request[r].at = "new"
  /\ LET tf  == Lower(timeframe)
         key == HubKey(symbol, tf)
     IN  IF ~ Supported(tf)
           THEN /\ request' = [request EXCEPT ![r] =
                                 [symbol |-> symbol, timeframe |-> timeframe,
                                  at |-> "rejected", hub |-> 0,
                                  close_code |-> UnsupportedTimeframe]]
                /\ UNCHANGED << _hubs, hub_count, hub_clients, hub_task >>
           ELSE /\ IF key \notin DOMAIN _hubs
                     THEN /\ hub_count' = hub_count + 1
                          /\ _hubs' = _hubs @@ (key :> hub_count')
                          /\ hub_clients' = hub_clients @@ (hub_count' :> {})
                          /\ hub_task' = hub_task @@ (hub_count' :> "none")
                     ELSE UNCHANGED << _hubs, hub_count, hub_clients,
                                       hub_task >>
                /\ request' = [request EXCEPT ![r] =
                                 [symbol |-> symbol, timeframe |-> timeframe,
                                  at |-> "connecting", hub |-> _hubs'[key],
                                  close_code |-> 0]]
  /\ UNCHANGED << oneHubVars, call >>

\* hub.connect completes: the client is added, the task started if the hub
\* has none that is not done
HubConnect(r) ==
  /\ request[r].at = "connecting"
  /\ LET hub == request[r].hub IN
       /\ hub_clients' = [hub_clients EXCEPT ![hub] = @ \cup {r}]
       /\ hub_task' = [hub_task EXCEPT ![hub] =
                         IF @ \in {"none", "done"} THEN "running" ELSE @]
  /\ request' = [request EXCEPT ![r].at = "attached"]
  /\ UNCHANGED << _hubs, hub_count, oneHubVars, call >>

\* WebSocketDisconnect, then hub.disconnect: the client is removed, the task
\* is told to stop if the hub has no client left
HubDisconnect(r) ==
  /\ request[r].at = "attached"
  /\ LET hub == request[r].hub IN
       /\ hub_clients' = [hub_clients EXCEPT ![hub] = @ \ {r}]
       /\ hub_task' = [hub_task EXCEPT ![hub] =
                         IF hub_clients'[hub] = {} /\ @ \in {"running", "stopping"}
                           THEN "stopping" ELSE @]
  /\ request' = [request EXCEPT ![r].at = "closed"]
  /\ UNCHANGED << _hubs, hub_count, oneHubVars, call >>

\* the ingestion task of a hub that was told to stop is done
HubTaskEnds(hub) ==
  /\ hub \in DOMAIN hub_task
  /\ hub_task[hub] = "stopping"
  /\ hub_task' = [hub_task EXCEPT ![hub] = "done"]
  /\ UNCHANGED << _hubs, hub_count, request, hub_clients, oneHubVars, call >>

NextRegistry ==
  \/ \E r \in Subscribers, symbol \in Symbols, timeframe \in Timeframes :
       MarketWs(r, symbol, timeframe)
  \/ \E r \in Subscribers : HubConnect(r)
  \/ \E r \in Subscribers : HubDisconnect(r)
  \/ \E hub \in 1 .. Cardinality(Subscribers) : HubTaskEnds(hub)

\* no client of the one hub, three requests to the entry point
InitRegistry == InitWith({}, {}, 0, 0)
SpecRegistry == InitRegistry /\ [][NextRegistry]_vars

----------------------------------------------------------------------------
(* _bucket_start as a function: one call, on any supported timeframe and    *)
(* any event time of EventTimes.                                            *)
InitBucket ==
  /\ HubInit({}, {}, 0, 0)
  /\ AppInit
  /\ call \in [timeframe : DOMAIN TIMEFRAME_SECONDS,
               event_time_ms : EventTimes, returned : {FALSE},
               bucket_start : {0}]

CallBucketStart ==
  /\ ~ call.returned
  /\ call' = [call EXCEPT !.returned = TRUE,
                          !.bucket_start = BucketStartOf(call.timeframe,
                                                         call.event_time_ms)]
  /\ UNCHANGED << oneHubVars, appVars >>

NextBucket == CallBucketStart
SpecBucket == InitBucket /\ [][NextBucket]_vars

----------------------------------------------------------------------------
(* Claims *)

\* no handler has called disconnect yet
NoneLeft == \A c \in Sockets : wsPc[c] \notin {"dlocked", "closed"}

\* C1: at any time at most one ingestion task of the hub has not finished,
\* and as long as no client has disconnected the connects that completed,
\* however they interleaved, started exactly one task between them.
C1_SingleIngestionTask ==
  /\ Cardinality(unfinished) <= 1
  /\ NoneLeft =>
       started = (IF \E c \in Sockets : wsPc[c] = "open" THEN 1 ELSE 0)

\* both clients are connected and share the one task that was started
C1_Witness ==
  /\ \A c \in Sockets : wsPc[c] = "open"
  /\ clients = Sockets
  /\ started = 1
  /\ unfinished = {1}

\* C2: a client whose connect has completed and who stays connected has a
\* live ingestion task whose stop signal is cleared, also when it connected
\* after the last client left and before the stopped task had shut down.
C2_ConnectedHasLiveTask ==
  \A c \in Sockets :
    (wsPc[c] = "open" /\ c \in clients) =>
      (stream_task \in unfinished /\ ~ stop_event)

\* C3: disconnect removes the client; it sets the stop signal and requests
\* cancellation exactly when the set is then empty and a task is running;
\* otherwise stop signal, cancellation and task handle are as before, and a
\* client that is not in the set leaves the set as it is.
C3_DisconnectStep(c) ==
  LET stops == (clients \ {c} = {}) /\ stream_task \in unfinished IN
  /\ clients' = clients \ {c}
  /\ (c \notin clients => clients' = clients)
  /\ stream_task' = stream_task
  /\ unfinished' = unfinished
  /\ IF stops
       THEN stop_event' /\ must_cancel'
       ELSE stop_event' = stop_event /\ must_cancel' = must_cancel

C3_DisconnectFrame ==
  [][\A c \in Sockets :
       (wsPc[c] = "dlocked" /\ wsPc'[c] = "closed") => C3_DisconnectStep(c)]_vars

\* one client has disconnected, the other remains and the task runs on
C3_Witness ==
  \E c, d \in Sockets :
    /\ wsPc[c] = "closed"
    /\ wsPc[d] = "open"
    /\ clients = {d}
    /\ stream_task \in unfinished
    /\ ~ stop_event
    /\ ~ must_cancel
    /\ pc = "recv"

\* C4: once the stop signal is set and cancellation requested, the task
\* reaches Stopped whatever it was waiting for; while the stop signal is set
\* the task opens no upstream connection and processes no trade.
C4_StopTerminates ==
  /\ \A t \in 1 .. Cardinality(Sockets) :
       (stream_task = t /\ t \in unfinished /\ stop_event /\ must_cancel)
         ~> (t \notin unfinished)
  /\ [][(stream_task \in unfinished /\ stop_event) =>
          /\ ~ (upstream = "closed" /\ upstream' = "open")
          /\ processed' = processed
          /\ emitted' = emitted]_vars

\* the stop arrives while the task sleeps in backoff
C4_Witness ==
  /\ stream_task \in unfinished
  /\ stop_event
  /\ must_cancel
  /\ pc = "sleep"

\* the trades of a sequence that fall in bucket b, in arrival order
InBucket(ts, b) == SelectSeq(ts, LAMBDA t : t.bucket_start = b)

SetMax(S) == CHOOSE x \in S : \A y \in S : y <= x
SetMin(S) == CHOOSE x \in S : \A y \in S : x <= y
RECURSIVE SeqSum(_)
SeqSum(q) == IF q = << >> THEN 0 ELSE Head(q) + SeqSum(Tail(q))

\* open/high/low/close/volume of a non-empty sequence of trades of bucket b
Ohlcv(ts, b) ==
  [bucket_start |-> b,
   open   |-> ts[1].price,
   high   |-> SetMax({ts[i].price : i \in 1 .. Len(ts)}),
   low    |-> SetMin({ts[i].price : i \in 1 .. Len(ts)}),
   close  |-> ts[Len(ts)].price,
   volume |-> SeqSum([i \in 1 .. Len(ts) |-> ts[i].quantity])]

\* C5: the candle held for a bucket has the open, high, low, close and
\* volume of all the trades of that bucket that the ingestion task has
\* parsed so far (first price, largest, smallest, last price, sum of
\* quantities).
C5_CandleReflectsAllTrades ==
  (stream_task \in unfinished /\ candle # NoCandle /\ pc \in {"recv", "throttle"}) =>
    candle = Ohlcv(InBucket(processed, candle.bucket_start), candle.bucket_start)

\* the bucket length of the hub's timeframe
Interval == TIMEFRAME_SECONDS[Timeframe]

\* the flat candles of buckets B + interval .. B + (k-1) * interval
FlatCandles(B, C, k) ==
  [i \in 1 .. (IF k >= 2 THEN k - 1 ELSE 0) |->
     [bucket_start |-> B + i * Interval, open |-> C, high |-> C, low |-> C,
      close |-> C, volume |-> 0]]

\* C6: a trade in bucket B + k*interval after a candle at bucket B with
\* close C yields the k-1 flat candles of the buckets in between, in
\* increasing order, and none for k <= 1; each is handed to broadcast in that
\* order with event_time_ms = bucket_start * 1000, and a trade of the open
\* bucket yields none.
C6_GapFill ==
  [][/\ (pc = "recv" /\ pc' = "gap" /\ candle # NoCandle
           /\ trade'.bucket_start >= candle.bucket_start) =>
          missing' = FlatCandles(candle.bucket_start, candle.close,
                       (trade'.bucket_start - candle.bucket_start) \div Interval)
     /\ (pc = "recv" /\ pc' = "throttle") => (missing = << >> /\ missing' = << >>)
     /\ (pc = "gap" /\ pc' = "bcast" /\ missing # << >>) =>
          /\ payload'.candle = Head(missing)
          /\ payload'.event_time_ms = Head(missing).bucket_start * 1000
          /\ missing' = Tail(missing)
          /\ candle' = candle
     /\ (pc = "gap" /\ pc' = "bcast" /\ missing = << >>) =>
          payload'.candle.bucket_start = trade.bucket_start]_vars

\* a trade three buckets after the open candle: two flat candles are pending
C6_Witness ==
  /\ pc = "gap"
  /\ candle # NoCandle
  /\ trade.bucket_start = candle.bucket_start + 3 * Interval
  /\ Len(missing) = 2
  /\ missing[1].bucket_start = candle.bucket_start + Interval
  /\ missing[2].bucket_start = candle.bucket_start + 2 * Interval

\* the payloads broadcast so far for the upstream message being processed
Batch == SubSeq(emitted, atRead.mark + 1, Len(emitted))

\* a client has received the candle of the bucket of the current trade
HasReal(c) ==
  \E i \in 1 .. Len(received[c]) :
    received[c][i].candle.bucket_start = trade.bucket_start

\* the number of synthetic candles the gap filler yields for the current trade
NumGaps ==
  LET n == Len(processed) IN
  IF n >= 2 /\ processed[n].bucket_start
                 > processed[n - 1].bucket_start + Interval
    THEN (processed[n].bucket_start - processed[n - 1].bucket_start)
           \div Interval - 1
    ELSE 0

IsSuffix(q, r) ==
  Len(q) <= Len(r) /\ q = SubSeq(r, Len(r) - Len(q) + 1, Len(r))

\* every trade parsed so far has a positive price and a non-negative quantity
SaneTrades ==
  \A i \in 1 .. Len(processed) :
    processed[i].price > 0 /\ processed[i].quantity >= 0

\* C7, for every client (and trades with positive prices only): a client
\* that has received the real candle of the new bucket has received every
\* synthetic candle of the gap before it.
C7_EveryClientGetsWholeGap ==
  \A c \in Sockets :
    (stream_task \in unfinished /\ processed # << >> /\ SaneTrades
       /\ HasReal(c)) =>
      Len(received[c]) = NumGaps + 1

\* C7, by the time a client joined: the payloads broadcast for one trade
\* are in strictly increasing bucket order, the real candle after every
\* pending synthetic
\* candle; a client that receives the real candle has received before it, in
\* order, every synthetic candle broadcast since it joined, and all that were
\* broadcast if it was in the client set when the trade was read.
C7_GapBeforeReal ==
  (stream_task \in unfinished /\ processed # << >>) =>
    /\ \A i, j \in 1 .. Len(Batch) :
         i < j => Batch[i].candle.bucket_start < Batch[j].candle.bucket_start
    /\ \A i \in 1 .. Len(Batch) :
         /\ Batch[i].candle.bucket_start <= trade.bucket_start
         /\ Batch[i].candle.bucket_start = trade.bucket_start => missing = << >>
    /\ \A c \in Sockets :
         HasReal(c) =>
           /\ IsSuffix(received[c], Batch)
           /\ c \in atRead.clients => received[c] = Batch

\* a client present when the trade was read has the two synthetic candles
\* and then the real candle
C7_Witness ==
  \E c \in atRead.clients :
    /\ Len(received[c]) = 3
    /\ received[c][3].candle.bucket_start = trade.bucket_start
    /\ received[c][1].candle.volume = 0
    /\ received[c][2].candle.volume = 0
    /\ received[c] = Batch

\* the validator's constraints on the candle of a payload
OhlcOk(pl) ==
  /\ pl.type = "candle_update"
  /\ pl.candle.open > 0 /\ pl.candle.high > 0
  /\ pl.candle.low > 0 /\ pl.candle.close > 0
  /\ pl.candle.volume >= 0
  /\ pl.candle.high >= pl.candle.open /\ pl.candle.high >= pl.candle.close
  /\ pl.candle.low <= pl.candle.open /\ pl.candle.low <= pl.candle.close
  /\ pl.candle.high >= pl.candle.low

\* C8: a payload that fails the validator is neither sent nor appended to
\* the ring buffer, broadcast returns to its caller and leaves client set
\* and task as they were; every payload sent, received or kept in the ring
\* buffer satisfies the validator's constraints.
C8_InvalidNeverSent ==
  /\ [](/\ \A c \in Sockets : \A i \in 1 .. Len(received[c]) : OhlcOk(received[c][i])
        /\ \A i \in 1 .. Len(recent_payloads) : OhlcOk(recent_payloads[i])
        /\ pc \in {"send", "prune", "pruning"} => OhlcOk(payload))
  /\ [][(pc = "bcast" /\ ~ OhlcOk(payload)) =>
          /\ recent_payloads' = recent_payloads
          /\ received' = received
          /\ emitted' = emitted
          /\ clients' = clients
          /\ unfinished' = unfinished
          /\ pc' = (CASE ret = "gap" -> "gap"
                      [] ret = "new" -> "throttle"
                      [] ret = "throttle" -> "recv")]_vars

\* a candle with a non-positive price was opened, its broadcast returned and
\* nothing was sent or buffered
C8_Witness ==
  /\ pc = "throttle"
  /\ ret = "new"
  /\ payload.candle = candle
  /\ candle.open <= 0
  /\ clients # {}
  /\ emitted = << >>
  /\ recent_payloads = << >>

\* the backoff sequence 1, 2, 4, 8, 16, 30, 30, ...
RECURSIVE Pow2(_)
Pow2(n) == IF n = 0 THEN 1 ELSE 2 * Pow2(n - 1)
Backoff(i) == IF Pow2(i - 1) > 30 THEN 30 ELSE Pow2(i - 1)

\* C9: the sleeps of an ingestion task since its last successful connection
\* (or its start) are 1, 2, 4, 8, 16, 30, 30, ... seconds, so the first
\* failure after a success sleeps 1 second and no sleep exceeds 30.
C9_BackoffSequence ==
  /\ \A i \in 1 .. Len(slept) : slept[i] = Backoff(i)
  /\ reconnect_delay <= 30
  /\ (pc = "recv" /\ stream_task \in unfinished) => reconnect_delay = 1

\* seven failures in a row: the last two sleeps are capped at 30
C9_Witness ==
  /\ Len(slept) = 7
  /\ slept[6] = 30
  /\ slept[7] = 30
  /\ pc = "sleep"

\* the three trades of the end-to-end example, t0 on a 300 s boundary
E2ETrades ==
  << [price |-> 100, quantity |-> 1, event_time_ms |-> T0,
      bucket_start |-> T0 \div 1000],
     [price |-> 105, quantity |-> 2, event_time_ms |-> T0 + 10000,
      bucket_start |-> T0 \div 1000],
     [price |-> 95, quantity |-> 1, event_time_ms |-> T0 + 700000,
      bucket_start |-> T0 \div 1000 + 600] >>

Flat(b, x, v) ==
  [bucket_start |-> b, open |-> x, high |-> x, low |-> x, close |-> x,
   volume |-> v]

\* C10: once the three trades are processed, the payloads broadcast include,
\* in this order, the candle 100/105/100/105 volume 3 of bucket(t0), one
\* synthetic candle 105 volume 0 of bucket t0+300 and the candle 95 volume 1
\* of bucket(t0+700).
C10_EndToEnd ==
  (stream_task \in unfinished /\ pc = "recv" /\ processed = E2ETrades) =>
    \E i, j, k \in 1 .. Len(emitted) :
      /\ i < j /\ j < k
      /\ emitted[i].candle = [bucket_start |-> T0 \div 1000, open |-> 100,
                              high |-> 105, low |-> 100, close |-> 105,
                              volume |-> 3]
      /\ emitted[j].candle = Flat(T0 \div 1000 + 300, 105, 0)
      /\ emitted[k].candle = Flat(T0 \div 1000 + 600, 95, 1)
      /\ \A m \in 1 .. Len(emitted) :
           emitted[m].candle.bucket_start = T0 \div 1000 + 300 => m = j

\* C11: one broadcast call snapshots the client set, then attempts delivery
\* to the clients of the snapshot one at a time, each exactly once: an attempt
\* either delivers the payload to that client or records the client as
\* failed, and in both cases the pass goes on with the remaining clients.  The
\* pass ends only when the snapshot is used up, and the pruning that follows
\* removes from the live set exactly the clients whose delivery failed.
C11_DeliveryPass ==
  [][ /\ (pc = "bcast" /\ pc' = "send") =>
           (snapshot' = clients /\ disconnected' = {})
      /\ (pc = "send" /\ snapshot' # snapshot /\ unfinished' = unfinished) =>
           \E c \in snapshot :
             /\ snapshot' = snapshot \ {c}
             /\ \/ /\ received' = [received EXCEPT ![c] = Append(@, payload)]
                   /\ disconnected' = disconnected
                \/ /\ received' = received
                   /\ disconnected' = disconnected \cup {c}
             /\ clients' = clients
             /\ snapshot' # {} => pc' = "send"
             /\ (snapshot' = {} /\ disconnected' # {}) => pc' = "prune"
      /\ (pc = "send" /\ pc' # "send" /\ unfinished' = unfinished) =>
           snapshot' = {}
      /\ (pc = "prune" /\ pc' # "prune") =>
           (pc' = "pruning" /\ clients' = clients)
      /\ (pc = "pruning" /\ pc' # "pruning") =>
           clients' = clients \ disconnected ]_vars

\* a pass over two clients is over: the delivery to one failed and it was
\* pruned, the other got the payload and is still a member
C11_Witness ==
  \E c, d \in Sockets :
    /\ c # d
    /\ pc \in {"gap", "throttle", "recv"}
    /\ disconnected = {c}
    /\ clients = {d}
    /\ wsPc[c] = "open"
    /\ wsPc[d] = "open"
    /\ Len(received[d]) > 0
    /\ received[c] = << >>

\* what the ingestion task does with a trade, as far as broadcasting goes: a
\* trade of another bucket than the open one goes to the gap pass, and the
\* pass ends with the broadcast of the candle it opens for the trade; the
\* candle of a trade is broadcast by the throttle only if the trade has had no
\* broadcast yet and the last call of broadcast is at least one interval old
C12_TradeStep ==
  /\ (processed' # processed /\ processed' # << >> /\ pc = "recv") =>
       (pc' = IF IsRollover(candle, trade'.bucket_start)
                THEN "gap" ELSE "throttle")
  /\ (pc = "gap" /\ missing = << >> /\ pc' # "gap") =>
       /\ pc' = "bcast"
       /\ payload' = BuildCandleUpdate(
                       OpenCandle(trade.bucket_start, trade.price,
                                  trade.quantity), trade.event_time_ms)
       /\ candle' = payload'.candle
  /\ (pc = "throttle" /\ pc' = "bcast") =>
       /\ payload' = BuildCandleUpdate(candle, trade.event_time_ms)
       /\ ~ (lastCast.task = stream_task /\ lastCast.trade = Len(processed))
       /\ lastCast.task # 0 => clock - lastCast.at >= emit_interval_seconds

\* C12 (as claimed): a new bucket is broadcast at once and once, an update
\* only when a second has passed since the last broadcast of the hub, and
\* two consecutive broadcasts of the hub for the same bucket are at least one
\* second apart.
C12_SameBucketSpaced ==
  [][ /\ C12_TradeStep
      /\ (pc = "bcast" /\ lastCast.valid /\ lastCast'.valid
          /\ lastCast'.bucket_start = lastCast.bucket_start) =>
           lastCast'.at - lastCast.at >= emit_interval_seconds ]_vars

\* C12 (amended): as above for the new bucket and the update; two calls of
\* broadcast that one run of the ingestion task makes one directly after the
\* other for the same bucket are at least one second apart.
C12_SameRunSpaced ==
  [][ /\ C12_TradeStep
      /\ (pc = "bcast" /\ lastCast'.task = lastCast.task
          /\ lastCast'.bucket_start = lastCast.bucket_start) =>
           lastCast'.at - lastCast.at >= emit_interval_seconds ]_vars

\* the second trade of a bucket is being broadcast, a second or more after
\* the broadcast of the candle that the first trade opened
C12_Witness ==
  /\ pc = "send"
  /\ ret = "throttle"
  /\ Len(processed) = 2
  /\ processed[1].bucket_start = processed[2].bucket_start
  /\ lastCast.task = stream_task
  /\ lastCast.trade = 2
  /\ lastCast.at >= emit_interval_seconds
  /\ Len(emitted) = 2

\* a request that market_ws has dealt with and did not let through
Refused(r) ==
  /\ request[r].at = "rejected"
  /\ request[r].close_code = UnsupportedTimeframe
  /\ request[r].hub = 0
  /\ \A hub \in DOMAIN hub_clients : r \notin hub_clients[hub]

\* the registry has only hubs of the table, and the step that rejects a
\* request looks up, creates and starts nothing
C13_RegistryClean ==
  /\ [](\A key \in DOMAIN _hubs : key[2] \in DOMAIN TIMEFRAME_SECONDS)
  /\ [][\A r \in Subscribers :
          (request[r].at = "new" /\ request'[r].at = "rejected") =>
             UNCHANGED << _hubs, hub_count, hub_clients, hub_task >>]_vars

\* C13 (as claimed): every request whose timeframe parameter is not one of
\* the keys of the table is closed with the policy code and touches no hub.
C13_RejectsOutsideTable ==
  /\ C13_RegistryClean
  /\ [](\A r \in Subscribers :
          (request[r].at # "new"
           /\ request[r].timeframe \notin DOMAIN TIMEFRAME_SECONDS) =>
             Refused(r))

\* C13 (amended): every request whose timeframe parameter, put in lower
\* case, is not one of the keys of the table is closed with code 1008 and
\* touches no hub; every other request is let through.
C13_RejectsUnsupported ==
  /\ C13_RegistryClean
  /\ [](\A r \in Subscribers :
          request[r].at # "new" =>
            IF Lower(request[r].timeframe) \in DOMAIN TIMEFRAME_SECONDS
              THEN request[r].at # "rejected" /\ request[r].hub # 0
              ELSE Refused(r))

\* one request was rejected while two others share a hub whose task runs
C13_Witness ==
  \E r, s, t \in Subscribers :
    /\ Refused(r)
    /\ request[r].timeframe = "1D"
    /\ request[s].at = "attached"
    /\ request[t].at = "attached"
    /\ request[s].timeframe = "5M"
    /\ request[t].timeframe = "5m"
    /\ s # t
    /\ request[s].hub = request[t].hub
    /\ hub_task[request[s].hub] = "running"
    /\ hub_count = 1

\* a request that went through get_market_hub
LookedUp(r) == request[r].at \in {"connecting", "attached", "closed"}

\* C14: the registry has one hub per key (SYMBOL, timeframe) and as many hubs
\* as keys; two requests get the same hub exactly when their symbols agree
\* up to letter case and their timeframes agree; and no step, a disconnect
\* of the last client included, removes an entry or puts another hub in it.
C14_OneHubPerKey ==
  /\ [](/\ \A k1, k2 \in DOMAIN _hubs : _hubs[k1] = _hubs[k2] => k1 = k2
        /\ hub_count = Cardinality(DOMAIN _hubs)
        /\ \A key \in DOMAIN _hubs : key[1] = Upper(key[1])
        /\ \A r, s \in Subscribers :
             (LookedUp(r) /\ LookedUp(s)) =>
               (request[r].hub = request[s].hub <=>
                  /\ Upper(request[r].symbol) = Upper(request[s].symbol)
                  /\ Lower(request[r].timeframe) = Lower(request[s].timeframe)))
  /\ [][\A key \in DOMAIN _hubs :
          key \in DOMAIN _hubs' /\ _hubs'[key] = _hubs[key]]_vars

\* two requests that spell the symbol differently share the hub that the
\* first of them created; its last client has gone and the entry is there,
\* and a third request has another hub
C14_Witness ==
  \E r, s, t \in Subscribers :
    /\ request[r].symbol = "btcusdt"
    /\ request[s].symbol = "BTCUSDT"
    /\ request[r].at = "closed"
    /\ request[s].at = "closed"
    /\ request[r].hub = request[s].hub
    /\ hub_clients[request[r].hub] = {}
    /\ _hubs[<< "BTCUSDT", Lower(request[r].timeframe) >>] = request[r].hub
    /\ LookedUp(t)
    /\ request[t].hub # request[r].hub
    /\ hub_count = 2

\* C15: the bucket of an event time is the one multiple of the bucket length
\* of the hub's timeframe that is at or before the event time, in seconds and
\* in milliseconds, and less than one bucket length before it; so it is
\* fixed by the event time and the timeframe alone.
C15_BucketOfEventTime ==
  call.returned =>
    LET bucket_seconds == TIMEFRAME_SECONDS[call.timeframe]
        seconds        == call.event_time_ms \div 1000
    IN  /\ call.bucket_start % bucket_seconds = 0
        /\ call.bucket_start <= seconds
        /\ seconds < call.bucket_start + bucket_seconds
        /\ call.bucket_start * 1000 <= call.event_time_ms
        /\ call.event_time_ms < (call.bucket_start + bucket_seconds) * 1000

\* the last millisecond of a 15-minute bucket is still in that bucket
C15_Witness ==
  /\ call.returned
  /\ call.timeframe = "15m"
  /\ call.event_time_ms = 2 * TIMEFRAME_SECONDS["15m"] * 1000 - 1
  /\ call.bucket_start = TIMEFRAME_SECONDS["15m"]

\* C17: whenever the upstream connection is lost and no stop or cancellation
\* is pending, the ingestion task goes to sleep for the current delay (and
\* doubles the delay when it wakes up) before it connects again.
C17_LossBacksOff ==
  [][ /\ (upstream = "open" /\ upstream' = "closed" /\ ~ stop_event
          /\ ~ must_cancel /\ unfinished' = unfinished) =>
           (pc' = "sleep" /\ slept' = Append(slept, reconnect_delay))
      /\ (pc = "sleep" /\ pc' # "sleep" /\ unfinished' = unfinished) =>
           reconnect_delay' = Min(2 * reconnect_delay, MaxReconnectDelay)
    ]_vars

\* C18: the ingestion task ends only when the stop signal is set or a
\* cancellation is pending.  A failure of the connection attempt or of the
\* open connection, or an exception while a message is processed, however
\* many came before, leaves the task alive and asleep; from the sleep the
\* task goes back to the loop test, and from there, unless told to stop, to
\* the next connection attempt.
C18_StopsOnlyOnRequest ==
  [][ /\ (stream_task \in unfinished /\ stream_task \notin unfinished') =>
           (stop_event \/ must_cancel)
      /\ (slept' # slept /\ slept' # << >>) =>
           (pc' = "sleep" /\ unfinished' = unfinished
            /\ stream_task \in unfinished)
      /\ (pc = "sleep" /\ pc' # "sleep" /\ unfinished' = unfinished) =>
           pc' = "loop"
      /\ (pc = "loop" /\ pc' # "loop" /\ ~ stop_event) => pc' = "connecting"
    ]_vars

\* after three failed connection attempts in a row, and their sleeps, the
\* task is at its fourth attempt
C18_Witness ==
  /\ Len(slept) = 3
  /\ pc = "connecting"
  /\ stream_task \in unfinished
  /\ ~ stop_event
  /\ ~ must_cancel

\* C19: a message that is read while no stop is requested and that yields no
\* trade changes nothing: the candle, the last-emit time, the backoff delay
\* and the upstream connection stay as they are, nothing is broadcast, and
\* the task waits for the next message.
C19_UnparsableDropped ==
  [][ (pc = "recv" /\ msgBudget' # msgBudget /\ processed' = processed
       /\ ~ stop_event) =>
        /\ candle' = candle
        /\ last_emit_at' = last_emit_at
        /\ reconnect_delay' = reconnect_delay
        /\ upstream' = upstream
        /\ emitted' = emitted
        /\ lastCast' = lastCast
        /\ recent_payloads' = recent_payloads
        /\ pc' = "recv" ]_vars

\* C20: the client set, the task handle, the stop signal and the request to
\* cancel change only in a step of the coroutine that holds the lock, and
\* while the ingestion task is suspended in a send of broadcast it does not
\* hold the lock.
C20_LockDiscipline ==
  /\ [][ (\/ clients' # clients
          \/ stream_task' # stream_task
          \/ stop_event' # stop_event
          \/ (must_cancel' /\ ~ must_cancel)
          \/ started' # started) =>
           (lock # "free" /\ lock = cur) ]_vars
  /\ []((pc = "send" /\ stream_task \in unfinished) => lock # "task")

\* a handler holds the lock while broadcast is in the middle of its sends
C20_Witness ==
  \E c \in Sockets :
    /\ pc = "send"
    /\ stream_task \in unfinished
    /\ snapshot # {}
    /\ lock = c
    /\ wsPc[c] \in {"locked", "dlocked"}

\* C21: the candle that the ingestion task holds has a high that is no less
\* than its open and close, a low that is no more than them, positive prices
\* and a volume that is not negative.
C21_CandleStateSound ==
  (stream_task \in unfinished /\ candle # NoCandle) =>
    /\ candle.high >= Max(candle.open, candle.close)
    /\ candle.low <= Min(candle.open, candle.close)
    /\ candle.high >= candle.low
    /\ candle.open > 0 /\ candle.high > 0
    /\ candle.low > 0 /\ candle.close > 0
    /\ candle.volume >= 0

\* C22 (for trades with positive prices): when a trade of a later bucket
\* arrives, the last payload broadcast for the bucket of the open candle
\* carries that candle as it is now, with every trade folded into it.
C22_FinalCandleBroadcast ==
  [][ (pc = "recv" /\ processed' # processed /\ processed' # << >>
       /\ candle # NoCandle /\ SaneTrades
       /\ trade'.bucket_start > candle.bucket_start) =>
        \E i \in 1 .. Len(emitted) :
          /\ emitted[i].candle = candle
          /\ \A j \in (i + 1) .. Len(emitted) :
               emitted[j].candle.bucket_start # candle.bucket_start ]_vars

\* C23: the buckets of the payloads broadcast by the hub, in the order of
\* their broadcast, never go back.
C23_BucketsNeverGoBack ==
  \A i, j \in 1 .. Len(emitted) :
    i < j => emitted[i].candle.bucket_start <= emitted[j].candle.bucket_start

\* C24: when the client set is empty and no connect, disconnect or broadcast
\* is under way, the hub has no ingestion task, or the task is done, or it
\* has been told to stop.
C24_NoClientsNoTask ==
  (/\ clients = {}
   /\ lock = "free"
   /\ \A c \in Sockets : wsPc[c] \in {"absent", "open", "closed"}
   /\ pc \notin {"bcast", "send", "prune", "pruning"}) =>
     (stream_task = 0 \/ TaskDone \/ stop_event \/ must_cancel)

TypeOK ==
  /\ clients \subseteq Sockets
  /\ lock \in {"free", "task"} \cup Sockets
  /\ Len(recent_payloads) <= RecentMaxLen
====
